---- MODULE Spec2Model ----
\* Verification model of three example agents of python-agents-examples:
\*   telephony/pre_roll_audio_file/pre_roll_audio_agent.py   (variables tel_...)
\*   complex-agents/note-taking-assistant/agent.py           (variables note_...)
\*   deep-fake-detector/agent.py                             (variables det_...)
\* Each agent is an independent program with its own specifications
\* (SpecTel; SpecNoteText, SpecNote; SpecDet, SpecDetParse, SpecDetTools,
\* SpecDetLive) over its own variables.
EXTENDS Integers, Sequences, FiniteSets, TLC

VARIABLES
    \* ---- telephony receptionist ----
    tel_pc,          \* position of entrypoint / entrypoint_office_closed / on_enter
    tel_now,         \* wall clock, minute of the day (datetime.now())
    tel_mode,        \* which of the two mode entrypoints was called
    tel_decidedAt,   \* wall clock at the read that decided the mode
    tel_connected,   \* ctx.connect() has returned
    tel_audio,       \* BackgroundAudioPlayer: "none", "playing", "closed"
    tel_secs,        \* seconds elapsed since the call entered the closed mode
    tel_start,       \* start_time of the closed-mode loop
    tel_roomDeleted, \* ctx.delete_room() has returned
    tel_preroll,     \* pre-roll playback: "none", "playing", "done"
    tel_greeting,    \* greeting: "none", "speaking", "said", "interrupted"
    \* ---- note-taking assistant ----
    note_buffer,         \* NoteTakingAssistant.transcript_buffer, a string
    note_transcriptions, \* NoteTakingAssistant.transcriptions, a list of strings
    note_current_notes,  \* NoteTakingAssistant.current_notes, a string
    note_update_task,    \* NoteTakingAssistant.note_update_task: 0 (None) or a task
    note_updTasks,       \* the update_notes tasks created so far
    note_sendTasks,      \* the send_transcription_to_frontend tasks created so far
    note_remote,         \* room.remote_participants is non-empty
    note_rpcs,           \* perform_rpc calls issued so far
    note_last_event,     \* the last transcript event delivered: "none", "interim", "final"
    \* ---- deep-fake detector ----
    det_clock,            \* wall clock in seconds (time.time(), datetime.now())
    det_room,             \* identities of the remote participants in the room
    det_entered,          \* on_enter has run (the room handlers are registered)
    det_exit,             \* position of on_exit and the participants it still visits
    det_pd,               \* the ParticipantData objects created so far
    det_participants,     \* _participants: identity -> ParticipantData (0: no entry)
    det_streams,          \* the rtc.VideoStream objects created so far
    det_tasks,            \* the _monitor_participant_frames tasks created so far
    det_monitoring_tasks, \* _monitoring_tasks
    det_handlers,         \* event handler coroutines suspended in an await
    det_results,          \* _detection_results
    det_threshold,        \* _confidence_threshold
    det_chat,             \* send_text calls issued on topic lk.chat
    det_warned,           \* the last warning logged by _handle_detection
    det_rpcs              \* perform_rpc calls issued by the agent

telVars == <<tel_pc, tel_now, tel_mode, tel_decidedAt, tel_connected, tel_audio,
             tel_secs, tel_start, tel_roomDeleted, tel_preroll, tel_greeting>>

noteVars == <<note_last_event, note_buffer, note_transcriptions, note_current_notes,
              note_update_task, note_updTasks, note_sendTasks, note_remote, note_rpcs>>

detVars == <<det_clock, det_room, det_entered, det_exit, det_pd, det_participants,
             det_streams, det_tasks, det_monitoring_tasks, det_handlers,
             det_results, det_threshold, det_chat, det_warned, det_rpcs>>

vars == <<telVars, noteVars, detVars>>

\* what the steps of one agent leave alone
nonTelVars == <<noteVars, detVars>>
nonNoteVars == <<telVars, detVars>>
nonDetVars == <<telVars, noteVars>>

\* ----------------------- TELEPHONY RECEPTIONIST -----------------------

\* The wall clock is observed in steps of half an hour.
ClockStep == 30
MinutesPerDay == 1440
DayTimes == {t \in 0..(MinutesPerDay - 1) : t % ClockStep = 0}

\* datetime.hour
Hour(t) == t \div 60

OpenFromHour == 8
OpenToHour == 17
HangupAfter == 10
\* the longest a single asyncio.sleep(1) is observed to take, in seconds
MaxSleep == 2

\* "8 AM - 5 PM" of the module docstring, 5 PM sharp included
WithinOfficeHours(t) == OpenFromHour * 60 <= t /\ t <= OpenToHour * 60

TelInit ==
    /\ tel_pc = "start"
    /\ tel_now \in DayTimes
    /\ tel_mode = "none"
    /\ tel_decidedAt = 0
    /\ tel_connected = FALSE
    /\ tel_audio = "none"
    /\ tel_secs = 0
    /\ tel_start = 0
    /\ tel_roomDeleted = FALSE
    /\ tel_preroll = "none"
    /\ tel_greeting = "none"

\* the wall clock passes a half-hour boundary while entrypoint is deciding
TelTick ==
    /\ tel_pc \in {"start", "read2"}
    /\ tel_now' = (tel_now + ClockStep) % MinutesPerDay
    /\ UNCHANGED <<tel_pc, tel_mode, tel_decidedAt, tel_connected, tel_audio,
                   tel_secs, tel_start, tel_roomDeleted, tel_preroll, tel_greeting>>
    /\ UNCHANGED nonTelVars

\* entrypoint, left operand of the `and`: datetime.now().hour >= 8
EntrypointFirstRead ==
    /\ tel_pc = "start"
    /\ IF Hour(tel_now) >= OpenFromHour
         THEN /\ tel_pc' = "read2"
              /\ UNCHANGED <<tel_mode, tel_decidedAt>>
         ELSE /\ tel_pc' = "closed_connect"
              /\ tel_mode' = "closed"
              /\ tel_decidedAt' = tel_now
    /\ UNCHANGED <<tel_now, tel_connected, tel_audio, tel_secs, tel_start,
                   tel_roomDeleted, tel_preroll, tel_greeting>>
    /\ UNCHANGED nonTelVars

\* entrypoint, right operand of the `and`: datetime.now().hour <= 17
EntrypointSecondRead ==
    /\ tel_pc = "read2"
    /\ IF Hour(tel_now) <= OpenToHour
         THEN /\ tel_pc' = "open_start"
              /\ tel_mode' = "open"
         ELSE /\ tel_pc' = "closed_connect"
              /\ tel_mode' = "closed"
    /\ tel_decidedAt' = tel_now
    /\ UNCHANGED <<tel_now, tel_connected, tel_audio, tel_secs, tel_start,
                   tel_roomDeleted, tel_preroll, tel_greeting>>
    /\ UNCHANGED nonTelVars

\* entrypoint_office_closed: await ctx.connect()
ClosedConnect ==
    /\ tel_pc = "closed_connect"
    /\ tel_connected' = TRUE
    /\ tel_pc' = "closed_start"
    /\ UNCHANGED <<tel_now, tel_mode, tel_decidedAt, tel_audio, tel_secs,
                   tel_start, tel_roomDeleted, tel_preroll, tel_greeting>>
    /\ UNCHANGED nonTelVars

\* ctx.connect() raises: the call is outside the try block, the error leaves
\* entrypoint_office_closed
ClosedConnectFails ==
    /\ tel_pc = "closed_connect"
    /\ tel_pc' = "closed_raised"
    /\ UNCHANGED <<tel_now, tel_mode, tel_decidedAt, tel_connected, tel_audio,
                   tel_secs, tel_start, tel_roomDeleted, tel_preroll, tel_greeting>>
    /\ UNCHANGED nonTelVars

\* await background_audio.start(...); start_time = datetime.now()
ClosedStartAudio ==
    /\ tel_pc = "closed_start"
    /\ tel_audio' = "playing"
    /\ tel_start' = tel_secs
    /\ tel_pc' = "closed_loop"
    /\ UNCHANGED <<tel_now, tel_mode, tel_decidedAt, tel_connected, tel_secs,
                   tel_roomDeleted, tel_preroll, tel_greeting>>
    /\ UNCHANGED nonTelVars

\* background_audio.start raises: except logs, finally closes the player,
\* the function returns
ClosedStartAudioFails ==
    /\ tel_pc = "closed_start"
    /\ tel_audio' = "closed"
    /\ tel_pc' = "closed_returned"
    /\ UNCHANGED <<tel_now, tel_mode, tel_decidedAt, tel_connected, tel_secs,
                   tel_start, tel_roomDeleted, tel_preroll, tel_greeting>>
    /\ UNCHANGED nonTelVars

\* head of the while loop: (datetime.now() - start_time).seconds >= 10
ClosedLoopCheck ==
    /\ tel_pc = "closed_loop"
    /\ IF tel_secs - tel_start >= HangupAfter
         THEN /\ tel_audio' = "closed"
              /\ tel_pc' = "closed_delete"
         ELSE /\ tel_pc' = "closed_sleep"
              /\ UNCHANGED tel_audio
    /\ UNCHANGED <<tel_now, tel_mode, tel_decidedAt, tel_connected, tel_secs,
                   tel_start, tel_roomDeleted, tel_preroll, tel_greeting>>
    /\ UNCHANGED nonTelVars

\* await asyncio.sleep(1)
ClosedSleep ==
    /\ tel_pc = "closed_sleep"
    /\ \E d \in 1..MaxSleep : tel_secs' = tel_secs + d
    /\ tel_pc' = "closed_loop"
    /\ UNCHANGED <<tel_now, tel_mode, tel_decidedAt, tel_connected, tel_audio,
                   tel_start, tel_roomDeleted, tel_preroll, tel_greeting>>
    /\ UNCHANGED nonTelVars

\* await ctx.delete_room(); return (finally closes the closed player again)
ClosedDeleteRoom ==
    /\ tel_pc = "closed_delete"
    /\ tel_roomDeleted' = TRUE
    /\ tel_pc' = "closed_returned"
    /\ UNCHANGED <<tel_now, tel_mode, tel_decidedAt, tel_connected, tel_audio,
                   tel_secs, tel_start, tel_preroll, tel_greeting>>
    /\ UNCHANGED nonTelVars

\* ctx.delete_room() raises: except logs, finally, the function returns
ClosedDeleteRoomFails ==
    /\ tel_pc = "closed_delete"
    /\ tel_pc' = "closed_returned"
    /\ UNCHANGED <<tel_now, tel_mode, tel_decidedAt, tel_connected, tel_audio,
                   tel_secs, tel_start, tel_roomDeleted, tel_preroll, tel_greeting>>
    /\ UNCHANGED nonTelVars

\* entrypoint_office_open: await session.start(agent=MyAgent(), ...)
OpenSessionStart ==
    /\ tel_pc = "open_start"
    /\ tel_connected' = TRUE
    /\ tel_pc' = "on_enter"
    /\ UNCHANGED <<tel_now, tel_mode, tel_decidedAt, tel_audio, tel_secs,
                   tel_start, tel_roomDeleted, tel_preroll, tel_greeting>>
    /\ UNCHANGED nonTelVars

\* OnEnterPreRoll that does not wait for the playback to end
OnEnterPreRoll_NotAwaited ==
    /\ tel_pc = "on_enter"
    /\ tel_preroll' = "playing"
    /\ tel_pc' = "pause"
    /\ UNCHANGED <<tel_now, tel_mode, tel_decidedAt, tel_connected, tel_audio,
                   tel_secs, tel_start, tel_roomDeleted, tel_greeting>>
    /\ UNCHANGED nonTelVars

\* MyAgent.on_enter: session.say(".", audio=..., allow_interruptions=False)
OnEnterPreRoll ==
    /\ tel_pc = "on_enter"
    /\ tel_preroll' = "playing"
    /\ tel_pc' = "preroll_wait"
    /\ UNCHANGED <<tel_now, tel_mode, tel_decidedAt, tel_connected, tel_audio,
                   tel_secs, tel_start, tel_roomDeleted, tel_greeting>>
    /\ UNCHANGED nonTelVars

\* the awaited pre-roll speech handle completes
OnEnterPreRollDone ==
    /\ tel_pc = "preroll_wait"
    /\ tel_preroll' = "done"
    /\ tel_pc' = "pause"
    /\ UNCHANGED <<tel_now, tel_mode, tel_decidedAt, tel_connected, tel_audio,
                   tel_secs, tel_start, tel_roomDeleted, tel_greeting>>
    /\ UNCHANGED nonTelVars

\* await asyncio.sleep(3) returns
OnEnterPause ==
    /\ tel_pc = "pause"
    /\ tel_pc' = "greet"
    /\ UNCHANGED <<tel_now, tel_mode, tel_decidedAt, tel_connected, tel_audio,
                   tel_secs, tel_start, tel_roomDeleted, tel_preroll, tel_greeting>>
    /\ UNCHANGED nonTelVars

\* self.session.say("Hello, ..."): the greeting starts
OnEnterGreeting ==
    /\ tel_pc = "greet"
    /\ tel_greeting' = "speaking"
    /\ tel_pc' = "greeting_wait"
    /\ UNCHANGED <<tel_now, tel_mode, tel_decidedAt, tel_connected, tel_audio,
                   tel_secs, tel_start, tel_roomDeleted, tel_preroll>>
    /\ UNCHANGED nonTelVars

\* the awaited greeting speech handle completes
OnEnterGreetingDone ==
    /\ tel_pc = "greeting_wait"
    /\ tel_greeting' = "said"
    /\ tel_pc' = "open_running"
    /\ UNCHANGED <<tel_now, tel_mode, tel_decidedAt, tel_connected, tel_audio,
                   tel_secs, tel_start, tel_roomDeleted, tel_preroll>>
    /\ UNCHANGED nonTelVars

\* the caller speaks while on_enter runs: the greeting (interruptions allowed
\* by default) is cut short, the pre-roll (allow_interruptions=False) goes on
UserSpeaks ==
    /\ tel_pc \in {"preroll_wait", "pause", "greet", "greeting_wait"}
    /\ IF tel_pc = "greeting_wait"
         THEN tel_greeting' = "interrupted" /\ tel_pc' = "open_running"
         ELSE UNCHANGED <<tel_greeting, tel_pc>>
    /\ UNCHANGED <<tel_now, tel_mode, tel_decidedAt, tel_connected, tel_audio,
                   tel_secs, tel_start, tel_roomDeleted, tel_preroll>>
    /\ UNCHANGED nonTelVars

TelNext ==
    \/ TelTick
    \/ EntrypointFirstRead
    \/ EntrypointSecondRead
    \/ ClosedConnect
    \/ ClosedConnectFails
    \/ ClosedStartAudio
    \/ ClosedStartAudioFails
    \/ ClosedLoopCheck
    \/ ClosedSleep
    \/ ClosedDeleteRoom
    \/ ClosedDeleteRoomFails
    \/ OpenSessionStart
    \/ OnEnterPreRoll
    \/ OnEnterPreRollDone
    \/ OnEnterPause
    \/ OnEnterGreeting
    \/ OnEnterGreetingDone
    \/ UserSpeaks

\* ----------------------- NOTE-TAKING ASSISTANT -----------------------

\* the characters transcripts are made of: a letter, a blank, two terminators
Chars == {"a", " ", ".", "?"}
\* longest transcript fragment of one user_input_transcribed event
MaxFragLen == 2
\* most characters received in all
MaxTextLen == 6

StringsUpTo(n) == UNION {[1..k -> Chars] : k \in 0..n}
Fragments == StringsUpTo(MaxFragLen)

\* the character class [.!?] of the regular expression
IsSentenceEnd(c) == c \in {".", "!", "?"}

\* str.strip(): drop the blanks at both ends
RECURSIVE LStrip(_)
LStrip(s) == IF s # <<>> /\ Head(s) = " " THEN LStrip(Tail(s)) ELSE s
RECURSIVE RStrip(_)
RStrip(s) ==
    IF s # <<>> /\ s[Len(s)] = " " THEN RStrip(SubSeq(s, 1, Len(s) - 1)) ELSE s
Strip(s) == RStrip(LStrip(s))

\* re.finditer(r'[.!?]+', s): the end offsets (match.end()) of the matches,
\* scanning from offset i (0-based, as in Python)
RECURSIVE RunEnd(_, _)
RunEnd(s, i) == IF i < Len(s) /\ IsSentenceEnd(s[i + 1]) THEN RunEnd(s, i + 1) ELSE i
RECURSIVE MatchEnds(_, _)
MatchEnds(s, i) ==
    IF i >= Len(s) THEN <<>>
    ELSE IF IsSentenceEnd(s[i + 1])
           THEN <<RunEnd(s, i)>> \o MatchEnds(s, RunEnd(s, i))
           ELSE MatchEnds(s, i + 1)

\* len(re.findall(r'[.!?]+', s))
SentenceEndings(s) == Len(MatchEnds(s, 0))

\* transcript_buffer after the fragment is added (lines 207-210)
AddFragment(buffer, fragment) ==
    IF buffer # <<>> THEN buffer \o <<" ">> \o fragment ELSE fragment

\* (mutation of LastPos: the offset of the last character of the third ending)
LastPos_OffByOne(buffer) == MatchEnds(buffer, 0)[3] - 1

\* offset after the third sentence ending (lines 220-226)
LastPos(buffer) == MatchEnds(buffer, 0)[3]

\* buffer[:last_pos].strip() and buffer[last_pos:].strip() (lines 229, 232)
ThreeSentences(buffer) == Strip(SubSeq(buffer, 1, LastPos(buffer)))
Remainder(buffer) == Strip(SubSeq(buffer, LastPos(buffer) + 1, Len(buffer)))

NoteInit ==
    /\ note_buffer = <<>>
    /\ note_transcriptions = <<>>
    /\ note_current_notes = <<>>
    /\ note_update_task = 0
    /\ note_updTasks = <<>>
    /\ note_sendTasks = <<>>
    /\ note_remote \in BOOLEAN
    /\ note_rpcs = <<>>
    /\ note_last_event = "none"

\* task.done()
TaskDone(t) == t.st \in {"done", "error", "cancelled"}

\* CancelTask that requests nothing
CancelTask_Noop(tasks, i) == tasks

\* task.cancel(): the CancelledError is thrown into the task at its next step
CancelTask(tasks, i) == [tasks EXCEPT ![i].cancelReq = TRUE]

\* on_transcript that adds every transcript to the buffer, final or not
OnTranscript_BuffersInterim(fragment, is_final) ==
    /\ note_last_event' = IF is_final THEN "final" ELSE "interim"
    /\ note_buffer' = AddFragment(note_buffer, fragment)
    /\ UNCHANGED <<note_transcriptions, note_current_notes, note_update_task,
                   note_updTasks, note_sendTasks, note_remote, note_rpcs>>
    /\ UNCHANGED nonNoteVars

\* on_transcript(transcript), the user_input_transcribed handler
OnTranscript(fragment, is_final) ==
    /\ note_last_event' = IF is_final THEN "final" ELSE "interim"
    /\ IF ~is_final
         THEN UNCHANGED <<note_buffer, note_transcriptions, note_current_notes,
                         note_update_task, note_updTasks, note_sendTasks,
                         note_remote, note_rpcs>>
         ELSE LET buf == AddFragment(note_buffer, fragment) IN
              IF SentenceEndings(buf) >= 3
                THEN LET three == ThreeSentences(buf)
                         pending == /\ note_update_task # 0
                                    /\ ~TaskDone(note_updTasks[note_update_task])
                         cancelled == IF pending
                                        THEN CancelTask(note_updTasks, note_update_task)
                                        ELSE note_updTasks
                     IN /\ note_buffer' = Remainder(buf)
                        /\ note_transcriptions' = Append(note_transcriptions, three)
                        /\ note_sendTasks' =
                              Append(note_sendTasks, [st |-> "created", arg |-> three])
                        /\ note_updTasks' =
                              Append(cancelled,
                                     [st |-> "created", cancelReq |-> FALSE, arg |-> three])
                        /\ note_update_task' = Len(note_updTasks) + 1
                        /\ UNCHANGED <<note_current_notes, note_remote, note_rpcs>>
                ELSE /\ note_buffer' = buf
                     /\ UNCHANGED <<note_transcriptions, note_current_notes,
                                    note_update_task, note_updTasks, note_sendTasks,
                                    note_remote, note_rpcs>>
    /\ UNCHANGED nonNoteVars

\* characters held by the assistant
TextLen ==
    LET RECURSIVE Sum(_)
        Sum(q) == IF q = <<>> THEN 0 ELSE Len(Head(q)) + Sum(Tail(q))
    IN Len(note_buffer) + Sum(note_transcriptions)

\* the speech recogniser delivers a transcript
TranscriptEvent ==
    \E fragment \in Fragments, is_final \in BOOLEAN :
        /\ TextLen + Len(fragment) + 1 <= MaxTextLen
        /\ OnTranscript(fragment, is_final)

NoteTextNext == TranscriptEvent

\* ---- the tasks spawned by on_transcript ----

\* most batches extracted in a run
MaxBatches == 2
\* transcripts of the runs that follow the tasks: one sentence, three sentences
OneSentence == <<"a", ".">>
ThreeShort == <<".", " ", "?", " ", ".">>
\* the notes the LLM is taken to answer with
NoteResponses == {<<"a">>, <<" ", "a", ".", " ">>}

\* the speech recogniser delivers one of these transcripts
BatchEvent ==
    \E fragment \in {OneSentence, ThreeShort}, is_final \in BOOLEAN :
        /\ Len(note_transcriptions) < MaxBatches
        /\ OnTranscript(fragment, is_final)

\* a participant joins an empty room, or the last one leaves
RemoteChanges ==
    /\ note_remote' = ~note_remote
    /\ UNCHANGED <<note_last_event, note_buffer, note_transcriptions, note_current_notes,
                   note_update_task, note_updTasks, note_sendTasks, note_rpcs>>
    /\ UNCHANGED nonNoteVars

\* variant: the payload is built from the notes held before the update
NotesRpc_StaleNotes(notes, transcriptions) ==
    [method |-> "receive_notes", payload |-> <<note_current_notes, transcriptions>>]

\* perform_rpc(method="receive_notes", ...) of lines 148-156; the timestamp of
\* the payload is left out
NotesRpc(notes, transcriptions) ==
    [method |-> "receive_notes", payload |-> <<notes, transcriptions>>]

\* variant: the batch goes out through the notes RPC
TranscriptionRpc_AsNotes(transcription) ==
    [method |-> "receive_notes", payload |-> <<note_current_notes, note_transcriptions>>]

\* perform_rpc(method="receive_transcription", ...) of lines 174-181
TranscriptionRpc(transcription) ==
    [method |-> "receive_transcription", payload |-> <<transcription>>]

\* update_notes starts: it builds the prompt and opens the LLM stream
UpdateNotesStart(i) ==
    /\ i \in 1..Len(note_updTasks)
    /\ note_updTasks[i].st = "created"
    /\ ~note_updTasks[i].cancelReq
    /\ note_updTasks' = [note_updTasks EXCEPT ![i].st = "llm"]
    /\ UNCHANGED <<note_last_event, note_buffer, note_transcriptions, note_current_notes,
                   note_update_task, note_sendTasks, note_remote, note_rpcs>>
    /\ UNCHANGED nonNoteVars

\* the LLM stream ends with the text response (lines 119-130 and
\* send_notes_to_frontend up to the perform_rpc call)
UpdateNotesLLMResponds(i, response) ==
    /\ i \in 1..Len(note_updTasks)
    /\ note_updTasks[i].st = "llm"
    /\ ~note_updTasks[i].cancelReq
    /\ note_current_notes' = Strip(response)
    /\ IF note_remote
         THEN /\ note_rpcs' = Append(note_rpcs,
                                     NotesRpc(Strip(response), note_transcriptions))
              /\ note_updTasks' = [note_updTasks EXCEPT ![i].st = "rpc"]
         ELSE /\ note_updTasks' = [note_updTasks EXCEPT ![i].st = "done"]
              /\ UNCHANGED note_rpcs
    /\ UNCHANGED <<note_last_event, note_buffer, note_transcriptions, note_update_task,
                   note_sendTasks, note_remote>>
    /\ UNCHANGED nonNoteVars

\* the LLM call raises: the error is logged (lines 132-133) and the task ends
UpdateNotesLLMFails(i) ==
    /\ i \in 1..Len(note_updTasks)
    /\ note_updTasks[i].st = "llm"
    /\ ~note_updTasks[i].cancelReq
    /\ note_updTasks' = [note_updTasks EXCEPT ![i].st = "error"]
    /\ UNCHANGED <<note_last_event, note_buffer, note_transcriptions, note_current_notes,
                   note_update_task, note_sendTasks, note_remote, note_rpcs>>
    /\ UNCHANGED nonNoteVars

\* the receive_notes RPC returns or raises (the error is logged, lines 158-159)
SendNotesReturns(i) ==
    /\ i \in 1..Len(note_updTasks)
    /\ note_updTasks[i].st = "rpc"
    /\ ~note_updTasks[i].cancelReq
    /\ note_updTasks' = [note_updTasks EXCEPT ![i].st = "done"]
    /\ UNCHANGED <<note_last_event, note_buffer, note_transcriptions, note_current_notes,
                   note_update_task, note_sendTasks, note_remote, note_rpcs>>
    /\ UNCHANGED nonNoteVars

\* UpdateNotesCancelled that stores what the stream had delivered so far
UpdateNotesCancelled_KeepsPartial(i) ==
    /\ i \in 1..Len(note_updTasks)
    /\ note_updTasks[i].cancelReq
    /\ ~TaskDone(note_updTasks[i])
    /\ note_updTasks' = [note_updTasks EXCEPT ![i].st = "cancelled"]
    /\ note_current_notes' = IF note_updTasks[i].st = "llm" THEN <<"a">>
                             ELSE note_current_notes
    /\ UNCHANGED <<note_last_event, note_buffer, note_transcriptions, note_update_task,
                   note_sendTasks, note_remote, note_rpcs>>
    /\ UNCHANGED nonNoteVars

\* the CancelledError of note_update_task.cancel() reaches the task: no
\* except clause of update_notes catches it
UpdateNotesCancelled(i) ==
    /\ i \in 1..Len(note_updTasks)
    /\ note_updTasks[i].cancelReq
    /\ ~TaskDone(note_updTasks[i])
    /\ note_updTasks' = [note_updTasks EXCEPT ![i].st = "cancelled"]
    /\ UNCHANGED <<note_last_event, note_buffer, note_transcriptions, note_current_notes,
                   note_update_task, note_sendTasks, note_remote, note_rpcs>>
    /\ UNCHANGED nonNoteVars

\* send_transcription_to_frontend starts (lines 163-181)
SendTranscriptionStart(j) ==
    /\ j \in 1..Len(note_sendTasks)
    /\ note_sendTasks[j].st = "created"
    /\ IF note_remote
         THEN /\ note_rpcs' = Append(note_rpcs, TranscriptionRpc(note_sendTasks[j].arg))
              /\ note_sendTasks' = [note_sendTasks EXCEPT ![j].st = "rpc"]
         ELSE /\ note_sendTasks' = [note_sendTasks EXCEPT ![j].st = "done"]
              /\ UNCHANGED note_rpcs
    /\ UNCHANGED <<note_last_event, note_buffer, note_transcriptions, note_current_notes,
                   note_update_task, note_updTasks, note_remote>>
    /\ UNCHANGED nonNoteVars

\* the receive_transcription RPC returns or raises (lines 182-184)
SendTranscriptionReturns(j) ==
    /\ j \in 1..Len(note_sendTasks)
    /\ note_sendTasks[j].st = "rpc"
    /\ note_sendTasks' = [note_sendTasks EXCEPT ![j].st = "done"]
    /\ UNCHANGED <<note_last_event, note_buffer, note_transcriptions, note_current_notes,
                   note_update_task, note_updTasks, note_remote, note_rpcs>>
    /\ UNCHANGED nonNoteVars

NoteNext ==
    \/ BatchEvent
    \/ RemoteChanges
    \/ \E i \in 1..Len(note_updTasks) : UpdateNotesStart(i)
    \/ \E i \in 1..Len(note_updTasks) : UpdateNotesLLMFails(i)
    \/ \E i \in 1..Len(note_updTasks), response \in NoteResponses :
          UpdateNotesLLMResponds(i, response)
    \/ \E i \in 1..Len(note_updTasks) : SendNotesReturns(i)
    \/ \E i \in 1..Len(note_updTasks) : UpdateNotesCancelled(i)
    \/ \E j \in 1..Len(note_sendTasks) : SendTranscriptionStart(j)
    \/ \E j \in 1..Len(note_sendTasks) : SendTranscriptionReturns(j)



\* ----------------------- DEEP-FAKE DETECTOR -----------------------

\* ---- the text of an LLM response, as a sequence of lexemes ----

Digits == {"0", "9"}
DigitValue(d) == CASE d = "0" -> 0 [] d = "9" -> 9
\* longest integer part and longest fraction of a number in a response
MaxIntDigits == 2
MaxFracDigits == 1
\* confidences and thresholds are held as multiples of 10^-MaxFracDigits
Scale == 10 ^ MaxFracDigits

DetectionPrefix == <<"DETECTION", ":">>
AiBotMark == <<"DETECTION", ":", " ", "AI_BOT">>
DeepFakeMark == <<"DETECTION", ":", " ", "DEEP_FAKE">>
ConfidenceMark == <<"Confidence", ":">>
NoDetectionText == <<"NO_", "DETECTION">>

\* str.startswith
StartsWith(s, prefix) ==
    Len(s) >= Len(prefix) /\ SubSeq(s, 1, Len(prefix)) = prefix

\* the `in` operator on strings
Contains(s, sub) ==
    \E i \in 1..(Len(s) - Len(sub) + 1) : SubSeq(s, i, i + Len(sub) - 1) = sub

\* \s* : offset after the blanks that start at offset i (0-based)
RECURSIVE SkipBlanks(_, _)
SkipBlanks(s, i) == IF i < Len(s) /\ s[i + 1] = " " THEN SkipBlanks(s, i + 1) ELSE i

\* \d+ : offset after the digits that start at offset i
RECURSIVE SkipDigits(_, _)
SkipDigits(s, i) ==
    IF i < Len(s) /\ s[i + 1] \in Digits THEN SkipDigits(s, i + 1) ELSE i

\* int() of a digit string
RECURSIVE DigitsValue(_)
DigitsValue(ds) ==
    IF ds = <<>> THEN 0
    ELSE DigitsValue(SubSeq(ds, 1, Len(ds) - 1)) * 10 + DigitValue(ds[Len(ds)])

\* float() of the text matched by (\d+(?:\.\d+)?), in units of 1/Scale;
\* int_part and frac_part are the two digit strings
ToFloat(int_part, frac_part) ==
    DigitsValue(int_part) * Scale
      + (IF frac_part = <<>> THEN 0
         ELSE DigitsValue(frac_part) * (10 ^ (MaxFracDigits - Len(frac_part))))

\* the match of Confidence:\s*(\d+(?:\.\d+)?) that starts at offset i:
\* <<>> when there is none, else <<float(group(1))>>
MatchConfidenceAt(s, i) ==
    IF ~StartsWith(SubSeq(s, i + 1, Len(s)), ConfidenceMark) THEN <<>>
    ELSE LET a == SkipBlanks(s, i + Len(ConfidenceMark))
             b == SkipDigits(s, a)
         IN IF b = a THEN <<>>
            ELSE LET hasFrac == /\ b < Len(s)
                                /\ s[b + 1] = "."
                                /\ SkipDigits(s, b + 1) > b + 1
                     c == IF hasFrac THEN SkipDigits(s, b + 1) ELSE b
                 IN <<ToFloat(SubSeq(s, a + 1, b),
                              IF hasFrac THEN SubSeq(s, b + 2, c) ELSE <<>>)>>

\* re.search(r'Confidence:\s*(\d+(?:\.\d+)?)', s): the leftmost match
RECURSIVE SearchConfidenceFrom(_, _)
SearchConfidenceFrom(s, i) ==
    IF i >= Len(s) THEN <<>>
    ELSE IF MatchConfidenceAt(s, i) # <<>> THEN MatchConfidenceAt(s, i)
         ELSE SearchConfidenceFrom(s, i + 1)
\* SearchConfidence that takes a text without a match for a confidence of 0
SearchConfidence_ZeroFallback(s) ==
    IF SearchConfidenceFrom(s, 0) = <<>> THEN <<0>> ELSE SearchConfidenceFrom(s, 0)

SearchConfidence(s) == SearchConfidenceFrom(s, 0)

\* the responses the LLM is taken to give
Prefixes == {<<>>, <<" ">>, <<"NO_">>, <<"x", " ">>}
Verdicts == {<<>>, <<"DETECTION">>, DetectionPrefix, AiBotMark, DeepFakeMark,
             <<"DETECTION", ":", "AI_BOT">>,
             DeepFakeMark \o <<" ">> \o AiBotMark}
DigitStrings(n) == UNION {[1..k -> Digits] : k \in 0..n}
FracStrings(n) == {<<>>, <<".">>} \cup {<<".">> \o f : f \in DigitStrings(n) \ {<<>>}}
Numbers == {i \o f : i \in DigitStrings(MaxIntDigits), f \in FracStrings(MaxFracDigits)}
ConfidenceLeads == {<<"Confidence", ":">>, <<"Confidence", ":", " ">>,
                    <<"Confidence", ":", " ", "-">>, <<"Confidence", " ">>}
ConfidenceClauses == {l \o n : l \in ConfidenceLeads, n \in Numbers}
GoodConfidence == <<"Confidence", ":", " ", "9", "9">>
\* every shape of verdict, with and without a well-formed confidence
VerdictResponses ==
    {p \o v \o c : p \in Prefixes, v \in Verdicts,
                   c \in {<<>>, <<" ">> \o GoodConfidence}}
\* every shape of confidence after a well-formed verdict
ConfidenceResponses ==
    {v \o <<" ">> \o c : v \in {AiBotMark, DeepFakeMark}, c \in ConfidenceClauses}
Responses == VerdictResponses \cup ConfidenceResponses
\* the responses of the runs with several participants
SampleResponses == {NoDetectionText, AiBotMark \o <<" ">> \o GoodConfidence}

\* ---- the agent ----

Ids == {"p1", "p2"}
\* most ParticipantData objects and most video streams created in a run
MaxPD == 2
MaxStreams == 2
\* most detections recorded in a run
MaxResults == 2
\* the instants at which the wall clock is read, in seconds
StartTime == 100
AnalysisInterval == 2
DetectionCooldown == 30
InitialThreshold == 90
TestingThreshold == 50
\* the instants of the runs with one participant, and of those with several
Instants == {StartTime, StartTime + AnalysisInterval, StartTime + DetectionCooldown}
CoarseInstants == {StartTime, StartTime + DetectionCooldown}
\* arguments given to set_confidence_threshold, in percent
ThresholdInputs == {-1, 0, 100, 101}

\* participant.name or participant.identity, for participants without a name
ParticipantName(p) == p

\* ParticipantData(participant_id=..., participant_name=...); None is 0.
\* last_frame_time is written at every frame and never read: it is left out.
NewParticipantData(p) ==
    [participant_id |-> p, participant_name |-> ParticipantName(p),
     video_stream |-> 0, detection_count |-> 0,
     last_detection_time |-> 0, is_monitoring |-> FALSE]

\* asyncio.create_task(self._monitor_participant_frames(participant_id))
NewMonitoringTask(p) ==
    [participant_id |-> p, pd |-> 0, stream |-> 0, pc |-> "created",
     cancelReq |-> FALSE, last_analysis_time |-> 0]

DetInit ==
    /\ det_clock = StartTime
    /\ det_room \in SUBSET Ids
    /\ det_entered = FALSE
    /\ det_exit = [pc |-> "idle", todo |-> <<>>]
    /\ det_pd = <<>>
    /\ det_participants = [p \in Ids |-> 0]
    /\ det_streams = <<>>
    /\ det_tasks = <<>>
    /\ det_monitoring_tasks = {}
    /\ det_handlers = <<>>
    /\ det_results = <<>>
    /\ det_threshold = InitialThreshold * Scale
    /\ det_chat = <<>>
    /\ det_warned = ""
    /\ det_rpcs = <<>>

\* video_stream.aclose() on stream st (0: no stream)
CloseStream(streams, st) ==
    IF st = 0 THEN streams ELSE [streams EXCEPT ![st] = "closed"]

\* streams a suspended _create_video_stream will still create
PendingStreams ==
    Cardinality({i \in 1..Len(det_handlers) : det_handlers[i].kind = "create"})

RemoveAt(q, i) == SubSeq(q, 1, i - 1) \o SubSeq(q, i + 1, Len(q))

\* time passes: the clock reaches instant t
Tick(t) ==
    /\ t > det_clock
    /\ det_clock' = t
    /\ UNCHANGED <<det_room, det_entered, det_exit, det_pd, det_participants,
                   det_streams, det_tasks, det_monitoring_tasks, det_handlers,
                   det_results, det_threshold, det_chat, det_warned, det_rpcs>>
    /\ UNCHANGED nonDetVars

\* _start_monitoring_participant(participant) for the participants in ps, one
\* after the other; hasVideo are those with a subscribed video track.  For a
\* new ParticipantData _create_video_stream finds no stream to close, so the
\* whole call runs without suspending.
RECURSIVE StartMonitoring(_, _, _)
StartMonitoring(st, ps, hasVideo) ==
    IF ps = <<>> THEN st
    ELSE LET p == Head(ps)
             n == Len(st.pd) + 1
             s == Len(st.streams) + 1
             k == Len(st.tasks) + 1
             next ==
               IF p \in hasVideo
                 THEN [pd |-> Append(st.pd,
                                 [NewParticipantData(p) EXCEPT
                                     !.video_stream = s, !.is_monitoring = TRUE]),
                       participants |-> [st.participants EXCEPT ![p] = n],
                       streams |-> Append(st.streams, "open"),
                       tasks |-> Append(st.tasks, NewMonitoringTask(p)),
                       monitoring_tasks |-> st.monitoring_tasks \cup {k}]
                 ELSE [st EXCEPT !.pd = Append(st.pd, NewParticipantData(p)),
                                 !.participants = [st.participants EXCEPT ![p] = n]]
         IN StartMonitoring(next, Tail(ps), hasVideo)

AgentState ==
    [pd |-> det_pd, participants |-> det_participants, streams |-> det_streams,
     tasks |-> det_tasks, monitoring_tasks |-> det_monitoring_tasks]

SetAgentState(st) ==
    /\ det_pd' = st.pd
    /\ det_participants' = st.participants
    /\ det_streams' = st.streams
    /\ det_tasks' = st.tasks
    /\ det_monitoring_tasks' = st.monitoring_tasks

\* the sequences that list the elements of set S once each
Orderings(S) ==
    {q \in [1..Cardinality(S) -> S] : \A i, j \in 1..Cardinality(S) : q[i] = q[j] => i = j}

\* on_enter: monitor the participants already in the room, register the handlers
OnEnter ==
    /\ ~det_entered
    /\ Len(det_pd) + Cardinality(det_room) <= MaxPD
    /\ \E order \in Orderings(det_room), hasVideo \in SUBSET det_room :
          /\ Len(det_streams) + Cardinality(hasVideo) <= MaxStreams
          /\ SetAgentState(StartMonitoring(AgentState, order, hasVideo))
    /\ det_entered' = TRUE
    /\ UNCHANGED <<det_clock, det_room, det_exit, det_handlers, det_results,
                   det_threshold, det_chat, det_warned, det_rpcs>>
    /\ UNCHANGED nonDetVars

\* participant_connected -> handle_participant_connected.  The room events
\* looked at are those up to the end of on_exit.
ParticipantConnected(p, hasVideo) ==
    /\ det_entered
    /\ det_exit.pc # "done"
    /\ p \notin det_room
    /\ Len(det_pd) < MaxPD
    /\ hasVideo => Len(det_streams) + PendingStreams < MaxStreams
    /\ det_room' = det_room \cup {p}
    /\ SetAgentState(StartMonitoring(AgentState, <<p>>,
                                     IF hasVideo THEN {p} ELSE {}))
    /\ UNCHANGED <<det_clock, det_entered, det_exit, det_handlers, det_results,
                   det_threshold, det_chat, det_warned, det_rpcs>>
    /\ UNCHANGED nonDetVars

\* the end of _create_video_stream (lines 218-227) for ParticipantData i
CreateStream(st, i) ==
    [st EXCEPT
       !.pd = [st.pd EXCEPT ![i].video_stream = Len(st.streams) + 1,
                            ![i].is_monitoring = TRUE],
       !.streams = Append(st.streams, "open"),
       !.tasks = Append(st.tasks, NewMonitoringTask(st.pd[i].participant_id)),
       !.monitoring_tasks = st.monitoring_tasks \cup {Len(st.tasks) + 1}]

\* track_subscribed (a video track) -> handle_track_subscribed ->
\* _create_video_stream, up to its first suspension
TrackSubscribed(p) ==
    /\ det_entered
    /\ det_exit.pc # "done"
    /\ p \in det_room
    /\ Len(det_streams) + PendingStreams < MaxStreams
    /\ det_participants[p] = 0 => Len(det_pd) < MaxPD
    /\ LET known == det_participants[p] # 0
           i == IF known THEN det_participants[p] ELSE Len(det_pd) + 1
           st0 == IF known THEN AgentState
                  ELSE [AgentState EXCEPT
                          !.pd = Append(det_pd, NewParticipantData(p)),
                          !.participants = [det_participants EXCEPT ![p] = i]]
           old == st0.pd[i].video_stream
       IN IF old # 0
            THEN \* await participant_data.video_stream.aclose()
                 /\ SetAgentState([st0 EXCEPT !.streams = CloseStream(st0.streams, old)])
                 /\ det_handlers' = Append(det_handlers,
                                           [kind |-> "create", participant_id |-> p, pd |-> i])
            ELSE /\ SetAgentState(CreateStream(st0, i))
                 /\ UNCHANGED det_handlers
    /\ UNCHANGED <<det_clock, det_room, det_entered, det_exit, det_results,
                   det_threshold, det_chat, det_warned, det_rpcs>>
    /\ UNCHANGED nonDetVars

\* _create_video_stream resumes after closing the previous stream
CreateStreamResume(h) ==
    /\ h \in 1..Len(det_handlers)
    /\ det_handlers[h].kind = "create"
    /\ SetAgentState(CreateStream(AgentState, det_handlers[h].pd))
    /\ det_handlers' = RemoveAt(det_handlers, h)
    /\ UNCHANGED <<det_clock, det_room, det_entered, det_exit, det_results,
                   det_threshold, det_chat, det_warned, det_rpcs>>
    /\ UNCHANGED nonDetVars

\* participant_disconnected -> handle_participant_disconnected ->
\* _stop_monitoring_participant, up to its first suspension
ParticipantDisconnected(p) ==
    /\ det_entered
    /\ det_exit.pc # "done"
    /\ p \in det_room
    /\ det_room' = det_room \ {p}
    /\ LET i == det_participants[p] IN
       IF i = 0
         THEN UNCHANGED <<det_pd, det_participants, det_streams, det_handlers>>
         ELSE IF det_pd[i].video_stream # 0
                THEN \* await participant_data.video_stream.aclose()
                     /\ det_streams' = CloseStream(det_streams, det_pd[i].video_stream)
                     /\ det_handlers' = Append(det_handlers,
                                               [kind |-> "stop", participant_id |-> p, pd |-> i])
                     /\ UNCHANGED <<det_pd, det_participants>>
                ELSE /\ det_pd' = [det_pd EXCEPT ![i].is_monitoring = FALSE]
                     /\ det_participants' = [det_participants EXCEPT ![p] = 0]
                     /\ UNCHANGED <<det_streams, det_handlers>>
    /\ UNCHANGED <<det_clock, det_entered, det_exit, det_tasks, det_monitoring_tasks,
                   det_results, det_threshold, det_chat, det_warned, det_rpcs>>
    /\ UNCHANGED nonDetVars

\* _stop_monitoring_participant resumes after closing the stream; the del
\* raises KeyError when the entry is gone, which ends the handler task
StopMonitoringResume(h) ==
    /\ h \in 1..Len(det_handlers)
    /\ det_handlers[h].kind = "stop"
    /\ det_pd' = [det_pd EXCEPT ![det_handlers[h].pd].is_monitoring = FALSE]
    /\ det_participants' = [det_participants EXCEPT ![det_handlers[h].participant_id] = 0]
    /\ det_handlers' = RemoveAt(det_handlers, h)
    /\ UNCHANGED <<det_clock, det_room, det_entered, det_exit, det_streams, det_tasks,
                   det_monitoring_tasks, det_results, det_threshold, det_chat, det_warned, det_rpcs>>
    /\ UNCHANGED nonDetVars

\* ---- the monitoring task, _monitor_participant_frames ----

TaskIds == 1..Len(det_tasks)

\* the task ends: its done callback removes it from _monitoring_tasks
EndTask(tasks, k) == [tasks EXCEPT ![k].pc = "done"]

\* the finally clause (lines 268-271) of task k: close the stream the
\* ParticipantData holds now and wait for it, or end at once
Finally(k) ==
    LET i == det_tasks[k].pd
        st == det_pd[i].video_stream
    IN IF st # 0
         THEN /\ det_streams' = CloseStream(det_streams, st)
              /\ det_tasks' = [det_tasks EXCEPT ![k].pc = "closing", ![k].cancelReq = FALSE]
              /\ UNCHANGED det_monitoring_tasks
         ELSE /\ det_tasks' = [EndTask(det_tasks, k) EXCEPT ![k].cancelReq = FALSE]
              /\ det_monitoring_tasks' = det_monitoring_tasks \ {k}
              /\ UNCHANGED det_streams

\* the task starts running (lines 233-247) and waits for the first frame
TaskStart(k) ==
    /\ k \in TaskIds
    /\ det_tasks[k].pc = "created"
    /\ ~det_tasks[k].cancelReq
    /\ LET p == det_tasks[k].participant_id
           i == det_participants[p]
       IN IF i = 0 \/ det_pd[i].video_stream = 0
            THEN /\ det_tasks' = EndTask(det_tasks, k)
                 /\ det_monitoring_tasks' = det_monitoring_tasks \ {k}
            ELSE /\ det_tasks' = [det_tasks EXCEPT ![k].pc = "wait_frame",
                                                   ![k].pd = i,
                                                   ![k].stream = det_pd[i].video_stream]
                 /\ UNCHANGED det_monitoring_tasks
    /\ UNCHANGED <<det_clock, det_room, det_entered, det_exit, det_pd, det_participants,
                   det_streams, det_handlers, det_results, det_threshold, det_chat, det_warned, det_rpcs>>
    /\ UNCHANGED nonDetVars

\* the cooldown test of _analyze_frame (lines 284-288)
InCooldown(pd, now) ==
    pd.last_detection_time # 0 /\ now - pd.last_detection_time < DetectionCooldown

\* IntervalElapsed that lets every frame through
IntervalElapsed_EveryFrame(now, last) == now >= last

\* the test of line 261
IntervalElapsed(now, last) == now - last >= AnalysisInterval

\* the stream yields a frame (lines 247-264 and _analyze_frame up to the LLM call)
FrameArrives(k) ==
    /\ k \in TaskIds
    /\ det_tasks[k].pc = "wait_frame"
    /\ ~det_tasks[k].cancelReq
    /\ det_streams[det_tasks[k].stream] = "open"
    /\ LET i == det_tasks[k].pd IN
       IF ~det_pd[i].is_monitoring
         THEN /\ Finally(k)
              /\ UNCHANGED det_pd
         ELSE /\ UNCHANGED det_pd
              /\ IF IntervalElapsed(det_clock, det_tasks[k].last_analysis_time)
                   THEN det_tasks' =
                          [det_tasks EXCEPT
                             ![k].last_analysis_time = det_clock,
                             ![k].pc = IF InCooldown(det_pd[i], det_clock)
                                         THEN "wait_frame" ELSE "llm"]
                   ELSE UNCHANGED det_tasks
              /\ UNCHANGED <<det_streams, det_monitoring_tasks>>
    /\ UNCHANGED <<det_clock, det_room, det_entered, det_exit, det_participants,
                   det_handlers, det_results, det_threshold, det_chat, det_warned, det_rpcs>>
    /\ UNCHANGED nonDetVars

\* the stream the task iterates has been closed: the loop ends
StreamEnds(k) ==
    /\ k \in TaskIds
    /\ det_tasks[k].pc = "wait_frame"
    /\ ~det_tasks[k].cancelReq
    /\ det_streams[det_tasks[k].stream] = "closed"
    /\ Finally(k)
    /\ UNCHANGED <<det_clock, det_room, det_entered, det_exit, det_pd, det_participants,
                   det_handlers, det_results, det_threshold, det_chat, det_warned, det_rpcs>>
    /\ UNCHANGED nonDetVars

\* the aclose() awaited in the finally clause returns
CloseReturns(k) ==
    /\ k \in TaskIds
    /\ det_tasks[k].pc = "closing"
    /\ ~det_tasks[k].cancelReq
    /\ det_tasks' = EndTask(det_tasks, k)
    /\ det_monitoring_tasks' = det_monitoring_tasks \ {k}
    /\ UNCHANGED <<det_clock, det_room, det_entered, det_exit, det_pd, det_participants,
                   det_streams, det_handlers, det_results, det_threshold, det_chat, det_warned, det_rpcs>>
    /\ UNCHANGED nonDetVars

\* ---- _handle_detection ----

\* DetectionType with the two tests in the other order
DetectionType_DeepFakeFirst(text) ==
    IF Contains(text, DeepFakeMark) THEN "DEEP_FAKE"
    ELSE IF Contains(text, AiBotMark) THEN "AI_BOT"
    ELSE ""

\* lines 357-362; "" when the text names neither type
DetectionType(text) ==
    IF Contains(text, AiBotMark) THEN "AI_BOT"
    ELSE IF Contains(text, DeepFakeMark) THEN "DEEP_FAKE"
    ELSE ""

\* str.lower() of the two type names
Lower(type) == CASE type = "AI_BOT" -> "ai_bot" [] type = "DEEP_FAKE" -> "deep_fake"

\* ConfidenceHighEnough with the comparison turned round
ConfidenceHighEnough_Flipped(confidence, threshold) == ~(threshold < confidence)

\* the test of line 376 is passed
ConfidenceHighEnough(confidence, threshold) == ~(confidence < threshold)

\* _handle_detection reaches line 367 and finds no match: it logs the warning
\* of line 368 and returns
NoConfidence(text) ==
    /\ StartsWith(text, DetectionPrefix)
    /\ DetectionType(text) # ""
    /\ SearchConfidence(text) = <<>>

\* _analyze_frame line 335 and _handle_detection lines 353-378: the response
\* text leads to a recorded detection
IsReported(text, threshold) ==
    /\ StartsWith(text, DetectionPrefix)
    /\ DetectionType(text) # ""
    /\ SearchConfidence(text) # <<>>
    /\ ConfidenceHighEnough(SearchConfidence(text)[1], threshold)

\* NewDetectionResult that records the distance to the threshold
NewDetectionResult_Margin(pd, text, now) ==
    [participant_id |-> pd.participant_id,
     participant_name |-> pd.participant_name,
     detection_type |-> Lower(DetectionType(text)),
     confidence |-> det_threshold - SearchConfidence(text)[1],
     timestamp |-> now,
     details |-> text]

\* DetectionResult(...) of lines 381-388
NewDetectionResult(pd, text, now) ==
    [participant_id |-> pd.participant_id,
     participant_name |-> pd.participant_name,
     detection_type |-> Lower(DetectionType(text)),
     confidence |-> SearchConfidence(text)[1],
     timestamp |-> now,
     details |-> text]

\* str.upper() of the two recorded type names
Upper(type) == CASE type = "ai_bot" -> "AI_BOT" [] type = "deep_fake" -> "DEEP_FAKE"

\* Notification with the detection id taken before the record is appended
Notification_StaleId(detection, id) ==
    [detection_type |-> Upper(detection.detection_type),
     participant_name |-> detection.participant_name,
     confidence |-> detection.confidence,
     time |-> detection.timestamp,
     detection_id |-> id - 1,
     topic |-> "lk.chat"]

\* the alert of _send_detection_notification (lines 434-444)
Notification(detection, id) ==
    [detection_type |-> Upper(detection.detection_type),
     participant_name |-> detection.participant_name,
     confidence |-> detection.confidence,
     time |-> detection.timestamp,
     detection_id |-> id,
     topic |-> "lk.chat"]

\* DetectionTimestamp read when the analysis of the frame began
DetectionTimestamp_AtAnalysis(task) == task.last_analysis_time

\* datetime.now() of line 386, read by the task when it builds the record
DetectionTimestamp(task) == det_clock

\* the LLM stream ends with the text raw (lines 331-337, 349-395, 428-444)
LLMResponds(k, raw) ==
    /\ k \in TaskIds
    /\ det_tasks[k].pc = "llm"
    /\ ~det_tasks[k].cancelReq
    /\ LET text == Strip(raw)
           i == det_tasks[k].pd
       IN IF IsReported(text, det_threshold)
            THEN LET detection == NewDetectionResult(det_pd[i], text,
                                                     DetectionTimestamp(det_tasks[k])) IN
                 /\ Len(det_results) < MaxResults
                 /\ UNCHANGED det_warned
                 /\ det_results' = Append(det_results, detection)
                 /\ det_pd' = [det_pd EXCEPT
                                 ![i].detection_count = det_pd[i].detection_count + 1,
                                 ![i].last_detection_time = det_clock]
                 /\ det_chat' = Append(det_chat,
                                       Notification(detection, Len(det_results) + 1))
                 /\ det_tasks' = [det_tasks EXCEPT ![k].pc = "notify"]
            ELSE /\ det_tasks' = [det_tasks EXCEPT ![k].pc = "wait_frame"]
                 /\ det_warned' = IF NoConfidence(text) THEN "no_confidence"
                                  ELSE det_warned
                 /\ UNCHANGED <<det_results, det_pd, det_chat>>
    /\ UNCHANGED <<det_clock, det_room, det_entered, det_exit, det_participants,
                   det_streams, det_monitoring_tasks, det_handlers, det_threshold,
                   det_rpcs>>
    /\ UNCHANGED nonDetVars

\* the LLM call raises: response_text = "NO_DETECTION" (lines 327-329)
LLMFails(k) ==
    /\ k \in TaskIds
    /\ det_tasks[k].pc = "llm"
    /\ ~det_tasks[k].cancelReq
    /\ ~IsReported(Strip(NoDetectionText), det_threshold)
    /\ det_tasks' = [det_tasks EXCEPT ![k].pc = "wait_frame"]
    /\ UNCHANGED <<det_clock, det_room, det_entered, det_exit, det_pd, det_participants,
                   det_streams, det_monitoring_tasks, det_handlers, det_results,
                   det_threshold, det_chat, det_warned, det_rpcs>>
    /\ UNCHANGED nonDetVars

\* send_text returns or raises (the error is logged, lines 445-446), then the
\* warning of line 397
NotifyReturns(k) ==
    /\ k \in TaskIds
    /\ det_tasks[k].pc = "notify"
    /\ ~det_tasks[k].cancelReq
    /\ det_tasks' = [det_tasks EXCEPT ![k].pc = "wait_frame"]
    /\ det_warned' = "detection"
    /\ UNCHANGED <<det_clock, det_room, det_entered, det_exit, det_pd, det_participants,
                   det_streams, det_monitoring_tasks, det_handlers, det_results,
                   det_threshold, det_chat, det_rpcs>>
    /\ UNCHANGED nonDetVars

\* the CancelledError of task.cancel() reaches the task
DeliverCancel(k) ==
    /\ k \in TaskIds
    /\ det_tasks[k].cancelReq
    /\ det_tasks[k].pc # "done"
    /\ IF det_tasks[k].pc \in {"wait_frame", "llm", "notify"}
         THEN Finally(k)
         ELSE /\ det_tasks' = [EndTask(det_tasks, k) EXCEPT ![k].cancelReq = FALSE]
              /\ det_monitoring_tasks' = det_monitoring_tasks \ {k}
              /\ UNCHANGED det_streams
    /\ UNCHANGED <<det_clock, det_room, det_entered, det_exit, det_pd, det_participants,
                   det_handlers, det_results, det_threshold, det_chat, det_warned, det_rpcs>>
    /\ UNCHANGED nonDetVars

\* ---- the function tools that change state ----

\* SetConfidenceThreshold without the range test
SetConfidenceThreshold_Unchecked(threshold) ==
    /\ det_entered
    /\ det_threshold' = threshold * Scale
    /\ UNCHANGED <<det_clock, det_room, det_entered, det_exit, det_pd, det_participants,
                   det_streams, det_tasks, det_monitoring_tasks, det_handlers,
                   det_results, det_chat, det_warned, det_rpcs>>
    /\ UNCHANGED nonDetVars

\* the range accepted by line 498, in percent
MinThreshold == 0
MaxThreshold == 100

\* set_confidence_threshold(threshold), threshold in percent
SetConfidenceThreshold(threshold) ==
    /\ det_entered
    /\ IF threshold < MinThreshold \/ threshold > MaxThreshold
         THEN UNCHANGED det_threshold
         ELSE det_threshold' = threshold * Scale
    /\ UNCHANGED <<det_clock, det_room, det_entered, det_exit, det_pd, det_participants,
                   det_streams, det_tasks, det_monitoring_tasks, det_handlers,
                   det_results, det_chat, det_warned, det_rpcs>>
    /\ UNCHANGED nonDetVars

\* enable_testing_mode
EnableTestingMode ==
    /\ det_entered
    /\ det_threshold' = TestingThreshold * Scale
    /\ UNCHANGED <<det_clock, det_room, det_entered, det_exit, det_pd, det_participants,
                   det_streams, det_tasks, det_monitoring_tasks, det_handlers,
                   det_results, det_chat, det_warned, det_rpcs>>
    /\ UNCHANGED nonDetVars

\* ClearDetectionHistory that drops the oldest record only
ClearDetectionHistory_DropsOldest ==
    /\ det_entered
    /\ det_results' = IF det_results = <<>> THEN <<>> ELSE Tail(det_results)
    /\ UNCHANGED <<det_clock, det_room, det_entered, det_exit, det_pd, det_participants,
                   det_streams, det_tasks, det_monitoring_tasks, det_handlers,
                   det_threshold, det_chat, det_warned, det_rpcs>>
    /\ UNCHANGED nonDetVars

\* clear_detection_history
ClearDetectionHistory ==
    /\ det_entered
    /\ det_results' = <<>>
    /\ UNCHANGED <<det_clock, det_room, det_entered, det_exit, det_pd, det_participants,
                   det_streams, det_tasks, det_monitoring_tasks, det_handlers,
                   det_threshold, det_chat, det_warned, det_rpcs>>
    /\ UNCHANGED nonDetVars

\* the participants counted as 'Active Participants' by get_detection_stats
\* (line 452) and get_detection_settings (line 524)
ActiveParticipants ==
    {p \in Ids : det_participants[p] # 0 /\ det_pd[det_participants[p]].is_monitoring}

\* ---- on_exit ----

\* the loop of lines 602-605 from participant Head(todo) on, up to the next
\* aclose() it has to wait for
RECURSIVE ExitRun(_, _, _)
ExitRun(pd, streams, todo) ==
    IF todo = <<>> THEN [pd |-> pd, streams |-> streams, todo |-> todo, pc |-> "done"]
    ELSE LET i == Head(todo) IN
         IF pd[i].video_stream # 0
           THEN [pd |-> pd, streams |-> CloseStream(streams, pd[i].video_stream),
                 todo |-> todo, pc |-> "await"]
           ELSE ExitRun([pd EXCEPT ![i].is_monitoring = FALSE], streams, Tail(todo))

\* lines 608-612 once the loop is over: clear the dict, cancel the tasks
ExitApply(r) ==
    /\ det_pd' = r.pd
    /\ det_streams' = r.streams
    /\ det_exit' = [pc |-> r.pc, todo |-> r.todo]
    /\ IF r.pc = "done"
         THEN /\ det_participants' = [p \in Ids |-> 0]
              /\ det_tasks' = [k \in TaskIds |->
                                 IF k \in det_monitoring_tasks
                                   THEN [det_tasks[k] EXCEPT !.cancelReq = TRUE]
                                   ELSE det_tasks[k]]
         ELSE UNCHANGED <<det_participants, det_tasks>>

\* on_exit is called
OnExit ==
    /\ det_entered
    /\ det_exit.pc = "idle"
    /\ \E order \in Orderings({p \in Ids : det_participants[p] # 0}) :
          ExitApply(ExitRun(det_pd, det_streams,
                            [j \in 1..Len(order) |-> det_participants[order[j]]]))
    /\ UNCHANGED <<det_clock, det_room, det_entered, det_monitoring_tasks, det_handlers,
                   det_results, det_threshold, det_chat, det_warned, det_rpcs>>
    /\ UNCHANGED nonDetVars

\* the aclose() on_exit waits for returns
OnExitResume ==
    /\ det_exit.pc = "await"
    /\ ExitApply(ExitRun([det_pd EXCEPT ![Head(det_exit.todo)].is_monitoring = FALSE],
                         det_streams, Tail(det_exit.todo)))
    /\ UNCHANGED <<det_clock, det_room, det_entered, det_monitoring_tasks, det_handlers,
                   det_results, det_threshold, det_chat, det_warned, det_rpcs>>
    /\ UNCHANGED nonDetVars

DetNext ==
    \/ \E t \in CoarseInstants : Tick(t)
    \/ OnEnter
    \/ \E p \in Ids, hasVideo \in BOOLEAN : ParticipantConnected(p, hasVideo)
    \/ \E p \in Ids : TrackSubscribed(p)
    \/ \E h \in 1..Len(det_handlers) : CreateStreamResume(h)
    \/ \E p \in Ids : ParticipantDisconnected(p)
    \/ \E h \in 1..Len(det_handlers) : StopMonitoringResume(h)
    \/ \E k \in TaskIds : TaskStart(k)
    \/ \E k \in TaskIds : FrameArrives(k)
    \/ \E k \in TaskIds : StreamEnds(k)
    \/ \E k \in TaskIds : CloseReturns(k)
    \/ \E k \in TaskIds : LLMFails(k)
    \/ \E k \in TaskIds, raw \in SampleResponses : LLMResponds(k, raw)
    \/ \E k \in TaskIds : NotifyReturns(k)
    \/ \E k \in TaskIds : DeliverCancel(k)
    \/ OnExit
    \/ OnExitResume

\* one participant and the clock at rest: every response of the family under
\* every threshold
DetParseInit ==
    /\ det_clock = StartTime
    /\ det_room = {"p1"}
    /\ det_entered = FALSE
    /\ det_exit = [pc |-> "idle", todo |-> <<>>]
    /\ det_pd = <<>>
    /\ det_participants = [p \in Ids |-> 0]
    /\ det_streams = <<>>
    /\ det_tasks = <<>>
    /\ det_monitoring_tasks = {}
    /\ det_handlers = <<>>
    /\ det_results = <<>>
    /\ det_threshold = InitialThreshold * Scale
    /\ det_chat = <<>>
    /\ det_warned = ""
    /\ det_rpcs = <<>>

DetParseNext ==
    \/ OnEnter
    \/ \E k \in TaskIds : TaskStart(k)
    \/ \E k \in TaskIds : FrameArrives(k)
    \/ \E k \in TaskIds : LLMFails(k)
    \/ \E k \in TaskIds, raw \in Responses : LLMResponds(k, raw)
    \/ \E k \in TaskIds : NotifyReturns(k)
    \/ \E threshold \in ThresholdInputs : SetConfidenceThreshold(threshold)
    \/ EnableTestingMode

\* one participant, the sample responses, the passing of time and every
\* function tool that changes state
DetToolsNext ==
    \/ \E t \in Instants : Tick(t)
    \/ OnEnter
    \/ \E k \in TaskIds : TaskStart(k)
    \/ \E k \in TaskIds : FrameArrives(k)
    \/ \E k \in TaskIds : LLMFails(k)
    \/ \E k \in TaskIds, raw \in SampleResponses : LLMResponds(k, raw)
    \/ \E k \in TaskIds : NotifyReturns(k)
    \/ \E threshold \in ThresholdInputs : SetConfidenceThreshold(threshold)
    \/ EnableTestingMode
    \/ ClearDetectionHistory



\* The three agents are separate programs: in the specification of one agent
\* the variables of the other two stay at these values.
TelOff ==
    /\ tel_pc = "off"
    /\ tel_now = 0
    /\ tel_mode = "none"
    /\ tel_decidedAt = 0
    /\ tel_connected = FALSE
    /\ tel_audio = "none"
    /\ tel_secs = 0
    /\ tel_start = 0
    /\ tel_roomDeleted = FALSE
    /\ tel_preroll = "none"
    /\ tel_greeting = "none"

DetOff ==
    /\ det_clock = 0
    /\ det_room = {}
    /\ det_entered = FALSE
    /\ det_exit = [pc |-> "off", todo |-> <<>>]
    /\ det_pd = <<>>
    /\ det_participants = [p \in Ids |-> 0]
    /\ det_streams = <<>>
    /\ det_tasks = <<>>
    /\ det_monitoring_tasks = {}
    /\ det_handlers = <<>>
    /\ det_results = <<>>
    /\ det_threshold = 0
    /\ det_chat = <<>>
    /\ det_warned = ""
    /\ det_rpcs = <<>>

NoteOff ==
    /\ note_buffer = <<>>
    /\ note_transcriptions = <<>>
    /\ note_current_notes = <<>>
    /\ note_update_task = 0
    /\ note_updTasks = <<>>
    /\ note_sendTasks = <<>>
    /\ note_remote = FALSE
    /\ note_rpcs = <<>>
    /\ note_last_event = "none"

InitTel == TelInit /\ NoteOff /\ DetOff

InitNote == NoteInit /\ TelOff /\ DetOff

InitDet == DetInit /\ TelOff /\ NoteOff

InitDetParse == DetParseInit /\ TelOff /\ NoteOff

SpecTel == InitTel /\ [][TelNext]_vars

SpecNoteText == InitNote /\ [][NoteTextNext]_vars

SpecNote == InitNote /\ [][NoteNext]_vars

SpecDet == InitDet /\ [][DetNext]_vars

SpecDetParse == InitDetParse /\ [][DetParseNext]_vars

SpecDetTools == InitDetParse /\ [][DetToolsNext]_vars

\* the steps the event loop owes to monitoring task k: a task that is ready
\* runs, an awaited close, LLM call or send_text comes back, the iteration of
\* a closed stream ends, a requested cancellation is delivered.  The arrival
\* of a further frame is up to the participant and is not among them.
TaskStep(k) ==
    \/ TaskStart(k)
    \/ StreamEnds(k)
    \/ CloseReturns(k)
    \/ LLMFails(k)
    \/ \E raw \in SampleResponses : LLMResponds(k, raw)
    \/ NotifyReturns(k)
    \/ DeliverCancel(k)

\* the closes awaited by the handlers and by on_exit come back
HandlerStep ==
    \/ \E h \in 1..Len(det_handlers) : CreateStreamResume(h)
    \/ \E h \in 1..Len(det_handlers) : StopMonitoringResume(h)
    \/ OnExitResume

DetFairness ==
    /\ \A k \in 1..MaxStreams : WF_vars(TaskStep(k))
    /\ WF_vars(HandlerStep)

SpecDetLive == InitDet /\ [][DetNext]_vars /\ DetFairness

\* C1: the open mode runs if and only if the time of day is within 8 AM - 5 PM,
\* the closed mode for every other time, exactly one mode per call.
C1_OpenIffWithinOfficeHours ==
    tel_mode # "none" =>
        /\ tel_mode \in {"open", "closed"}
        /\ (tel_mode = "open") <=> WithinOfficeHours(tel_decidedAt)

\* C2: every execution of the closed mode that returns has deleted the room,
\* also when starting the background audio raised.
C2_ClosedModeReturnsOnlyAfterHangup ==
    tel_pc = "closed_returned" => tel_roomDeleted

\* ---- C7 ----
\* the offsets at which a maximal run of '.', '!' or '?' ends
RunEndsOf(s) ==
    {i \in 1..Len(s) : IsSentenceEnd(s[i]) /\ (i = Len(s) \/ ~IsSentenceEnd(s[i + 1]))}

\* x is y without the blanks at its two ends
IsStripOf(x, y) ==
    \E i \in 1..(Len(y) + 1) : \E j \in 0..Len(y) :
        /\ x = SubSeq(y, i, j)
        /\ \A k \in 1..Len(y) : (k < i \/ k > j) => y[k] = " "
        /\ x # <<>> => (x[1] # " " /\ x[Len(x)] # " ")

C7_Batched(fragment) ==
    LET joined == IF note_buffer = <<>> THEN fragment
                  ELSE note_buffer \o <<" ">> \o fragment
        ends == RunEndsOf(joined)
    IN IF Cardinality(ends) >= 3
         THEN \E n \in ends :
                /\ Cardinality({e \in ends : e <= n}) = 3
                /\ Len(note_transcriptions') = Len(note_transcriptions) + 1
                /\ SubSeq(note_transcriptions', 1, Len(note_transcriptions))
                      = note_transcriptions
                /\ IsStripOf(note_transcriptions'[Len(note_transcriptions')],
                             SubSeq(joined, 1, n))
                /\ IsStripOf(note_buffer', SubSeq(joined, n + 1, Len(joined)))
         ELSE /\ note_transcriptions' = note_transcriptions
              /\ note_buffer' = joined

C3_NoRepeatWithinCooldown ==
    \A i, j \in 1..Len(det_results) :
        (i < j /\ det_results[i].participant_id = det_results[j].participant_id)
            => det_results[j].timestamp - det_results[i].timestamp >= DetectionCooldown

\* ---- C4 ----

\* the four effects of a reported detection, on the ParticipantData i the
\* task holds
C4_AllEffects(i) ==
    /\ Len(det_results') = Len(det_results) + 1
    /\ det_pd'[i].detection_count = det_pd[i].detection_count + 1
    /\ det_pd'[i].last_detection_time = det_clock
    /\ Len(det_chat') = Len(det_chat) + 1

C4_NoEffect == UNCHANGED <<det_results, det_pd, det_chat>>

\* C4: handling an LLM response has either all four effects (a record is
\* appended, detection_count incremented, last_detection_time set, an alert
\* sent) or none of them, and has them only when the parsed confidence is
\* greater than or equal to the threshold in force at that moment.
C4_BelowThresholdIgnored ==
    [][\A k \in TaskIds, raw \in Responses :
          LLMResponds(k, raw) =>
             LET conf == SearchConfidence(Strip(raw)) IN
             IF conf # <<>> /\ conf[1] >= det_threshold
               THEN C4_AllEffects(det_tasks[k].pd) \/ C4_NoEffect
               ELSE C4_NoEffect]_vars

\* a detection whose confidence equals the initial threshold has been recorded
C4_Witness ==
    /\ det_threshold = InitialThreshold * Scale
    /\ \E i \in 1..Len(det_results) : det_results[i].confidence = det_threshold

\* ---- C5 ----

\* what the handling of a response may not touch when it is no detection
C5_NoStateChange ==
    UNCHANGED <<det_room, det_pd, det_participants, det_streams,
                det_monitoring_tasks, det_handlers, det_results, det_threshold,
                det_chat, det_warned>>

C5_NamesNoType(text) == ~Contains(text, AiBotMark) /\ ~Contains(text, DeepFakeMark)

\* C5: a response (stripped) is recorded only if it starts with "DETECTION:";
\* the recorded type is ai_bot when the text contains "DETECTION: AI_BOT",
\* otherwise deep_fake when it contains "DETECTION: DEEP_FAKE"; a response
\* that does not start with "DETECTION:" or names neither type, and a failed
\* LLM call, change no agent state.
C5_VerdictExtraction ==
    [][/\ \A k \in TaskIds, raw \in Responses :
             LLMResponds(k, raw) =>
                LET text == Strip(raw) IN
                /\ det_results' # det_results =>
                      /\ StartsWith(text, DetectionPrefix)
                      /\ ~C5_NamesNoType(text)
                      /\ Len(det_results') = Len(det_results) + 1
                      /\ det_results'[Len(det_results')].details = text
                      /\ det_results'[Len(det_results')].detection_type =
                            IF Contains(text, AiBotMark) THEN "ai_bot" ELSE "deep_fake"
                /\ (~StartsWith(text, DetectionPrefix) \/ C5_NamesNoType(text))
                      => C5_NoStateChange
       /\ \A k \in TaskIds : LLMFails(k) => C5_NoStateChange]_vars

\* a response naming both types has been recorded as ai_bot
C5_Witness ==
    \E i \in 1..Len(det_results) :
        /\ det_results[i].detection_type = "ai_bot"
        /\ Contains(det_results[i].details, DeepFakeMark)

\* ---- C6 ----

\* the text holds "Confidence:", any number of blanks, then a digit
C6_WellFormed(text) ==
    \E i, j \in 1..Len(text) :
        /\ i + 2 <= j
        /\ SubSeq(text, i, i + 1) = ConfidenceMark
        /\ \A m \in (i + 2)..(j - 1) : text[m] = " "
        /\ text[j] \in Digits

\* a detection response that names a type
C6_IsDetection(text) ==
    StartsWith(text, DetectionPrefix) /\ ~C5_NamesNoType(text)

\* C6 as stated: a detection response without a well-formed
\* "Confidence: <number>" is handled as if its confidence were 0, so it is
\* recorded exactly when the threshold is 0.
C6_FallbackToZero ==
    [][\A k \in TaskIds, raw \in Responses :
          (LLMResponds(k, raw) /\ C6_IsDetection(Strip(raw)) /\ ~C6_WellFormed(Strip(raw)))
             => ((det_results' # det_results) <=> (det_threshold = 0))]_vars

\* C6 amended: a detection response without a well-formed
\* "Confidence: <number>" is never recorded, whatever the threshold: the
\* handler logs a warning and returns, no record, count, cooldown or alert
\* results, no error is raised and the task goes on to the next frame.
C6_MalformedIgnored ==
    [][\A k \in TaskIds, raw \in Responses :
          (LLMResponds(k, raw) /\ C6_IsDetection(Strip(raw)) /\ ~C6_WellFormed(Strip(raw)))
             => /\ UNCHANGED <<det_results, det_pd, det_chat>>
                /\ det_warned' = "no_confidence"
                /\ det_tasks'[k].pc = "wait_frame"]_vars

\* the warning has been logged with the threshold at 0 and nothing recorded
C6_Witness ==
    /\ det_warned = "no_confidence"
    /\ det_threshold = 0
    /\ det_results = <<>>
    /\ det_chat = <<>>

\* ---- C8 ----

\* C8: every recorded DetectionResult has a non-negative confidence.
C8_NonNegativeConfidence ==
    \A i \in 1..Len(det_results) : det_results[i].confidence >= 0

\* a detection of confidence 0 has been recorded
C8_Witness ==
    \E i \in 1..Len(det_results) : det_results[i].confidence = 0

\* ---- C9 ----

\* C9: _detection_results is ordered by non-decreasing timestamp.
C9_MonotonicTimestamps ==
    \A i, j \in 1..Len(det_results) :
        i <= j => det_results[i].timestamp <= det_results[j].timestamp

\* two participants have been reported at different times by tasks that were
\* running together
C9_Witness ==
    /\ Len(det_results) = 2
    /\ det_results[1].participant_id # det_results[2].participant_id
    /\ det_results[1].timestamp < det_results[2].timestamp
    /\ \E k1, k2 \in TaskIds :
          /\ det_tasks[k1].participant_id # det_tasks[k2].participant_id
          /\ det_tasks[k1].pc \in {"wait_frame", "notify"}
          /\ det_tasks[k2].pc \in {"wait_frame", "notify"}

\* ---- C10 ----

\* every record of the list is still there, at its place and unmodified
C10_Kept ==
    /\ Len(det_results) <= Len(det_results')
    /\ SubSeq(det_results', 1, Len(det_results)) = det_results

\* C10 as stated: once a DetectionResult is appended, no operation of the
\* agent modifies it or removes it from the list.
C10_RecordsNeverRemoved == [][C10_Kept]_vars

\* C10 amended: no operation other than the function tool
\* clear_detection_history modifies or removes an appended record, and
\* clear_detection_history removes all of them.
C10_RemovedOnlyByClear ==
    [][C10_Kept \/ (ClearDetectionHistory /\ det_results' = <<>>)]_vars

\* the history has been cleared after a detection was recorded and alerted,
\* and a later detection recorded again
C10_Witness ==
    /\ Len(det_chat) = 2
    /\ Len(det_results) = 1

\* ---- C11 ----

\* C11: a chat alert on topic lk.chat is sent for every detection that is
\* recorded, in the step that appends the record and after the append (its
\* detection id is the length of the list with the record in it), carrying
\* that detection; no alert is sent in any other step.
C11_AlertPerDetection ==
    [][/\ (Len(det_results') = Len(det_results) + 1)
            <=> (Len(det_chat') = Len(det_chat) + 1)
       /\ det_chat' # det_chat =>
            LET r == det_results'[Len(det_results')]
                m == det_chat'[Len(det_chat')]
            IN /\ SubSeq(det_chat', 1, Len(det_chat)) = det_chat
               /\ SubSeq(det_results', 1, Len(det_results)) = det_results
               /\ m.topic = "lk.chat"
               /\ m.detection_type = Upper(r.detection_type)
               /\ m.participant_name = r.participant_name
               /\ m.confidence = r.confidence
               /\ m.time = r.timestamp
               /\ m.detection_id = Len(det_results')]_vars

\* a detection has been recorded and its alert is being sent
C11_Witness ==
    /\ Len(det_results) = 1
    /\ Len(det_chat) = 1
    /\ \E k \in TaskIds : det_tasks[k].pc = "notify"

\* ---- C12 ----

\* C12: every recorded detection results in an RPC to the connected clients:
\* once the handling of a recorded detection is over (the warning of line 397
\* is logged), an RPC has been issued.
C12_RpcPerDetection == det_warned = "detection" => det_rpcs # <<>>

\* ---- C13 ----

\* C13: within one monitoring task an analysis starts only when the task is
\* waiting for a frame (the previous analysis has returned) and at least the
\* analysis interval of 2 seconds after the start of the previous one; a
\* frame that arrives earlier starts no analysis.
C13_AnalysisInterval ==
    [][\A k \in TaskIds :
          LET started == \/ det_tasks'[k].last_analysis_time # det_tasks[k].last_analysis_time
                         \/ det_tasks[k].pc # "llm" /\ det_tasks'[k].pc = "llm"
          IN started =>
               /\ det_tasks[k].pc = "wait_frame"
               /\ det_clock - det_tasks[k].last_analysis_time >= AnalysisInterval
               /\ det_tasks'[k].last_analysis_time = det_clock]_vars

\* a second analysis has started exactly one interval after the first one,
\* which recorded a detection
C13_Witness ==
    /\ \E k \in TaskIds :
          det_tasks[k].last_analysis_time = StartTime + AnalysisInterval
    /\ \E i \in 1..Len(det_results) : det_results[i].timestamp = StartTime

\* ---- C14 ----

\* C14: set_confidence_threshold(t) sets the threshold to t when
\* 0 <= t <= 100 and changes nothing of the agent state for t < 0 or t > 100;
\* the threshold is within [0, 100] after every step.
C14_ThresholdInRange ==
    [][/\ \A t \in ThresholdInputs :
             SetConfidenceThreshold(t) =>
                IF 0 <= t /\ t <= 100
                  THEN det_threshold' = t * Scale
                  ELSE UNCHANGED detVars
       /\ 0 <= det_threshold' /\ det_threshold' <= 100 * Scale]_vars

\* the largest threshold has been accepted
C14_Witness == det_entered /\ det_threshold = 100 * Scale

\* ---- C15 ----

\* C15: the greeting is issued only after the pre-roll playback has completed
\* and the pause is over; the pre-roll, once playing, is never interrupted;
\* the greeting never precedes or overlaps the pre-roll.
C15_GreetingAfterPreRoll ==
    [][/\ (tel_greeting = "none" /\ tel_greeting' # "none")
             => (tel_preroll = "done" /\ tel_pc = "greet")
       /\ tel_preroll = "playing" => tel_preroll' \in {"playing", "done"}
       /\ tel_preroll' # "done" => tel_greeting' = "none"]_vars

\* the greeting is being spoken after the pre-roll has been played
C15_Witness == tel_greeting = "speaking" /\ tel_preroll = "done"


\* ---- C16 ----
\* C16: every batch appended to transcriptions has exactly one send task that
\* carries it; a send task is never held back by the cancellation of a note
\* update (it can always start); started with a remote participant it issues
\* one receive_transcription RPC with its batch, started without one it
\* issues no RPC and ends normally.
C16_OneSendPerBatch ==
    /\ Len(note_sendTasks) = Len(note_transcriptions)
    /\ \A k \in 1..Len(note_sendTasks) :
          /\ note_sendTasks[k].arg = note_transcriptions[k]
          /\ note_sendTasks[k].st \in {"created", "rpc", "done"}
          /\ note_sendTasks[k].st = "created" => ENABLED SendTranscriptionStart(k)
    /\ Cardinality({r \in 1..Len(note_rpcs) :
                       note_rpcs[r].method = "receive_transcription"})
          <= Cardinality({k \in 1..Len(note_sendTasks) :
                             note_sendTasks[k].st # "created"})

C16_SendStep ==
    \A k \in 1..Len(note_sendTasks) :
        (note_sendTasks[k].st = "created" /\ note_sendTasks'[k].st # "created") =>
            IF note_remote
              THEN /\ note_rpcs' = Append(note_rpcs,
                         [method |-> "receive_transcription",
                          payload |-> <<note_transcriptions[k]>>])
                   /\ note_sendTasks'[k].st = "rpc"
              ELSE /\ note_rpcs' = note_rpcs
                   /\ note_sendTasks'[k].st = "done"

C16_TranscriptionSend == []C16_OneSendPerBatch /\ [][C16_SendStep]_vars

\* a note update was cancelled, yet both batches had their send: one by RPC,
\* one with nobody to send to
C16_Witness ==
    /\ Len(note_sendTasks) = 2
    /\ note_updTasks[1].st = "cancelled"
    /\ \A k \in 1..2 : note_sendTasks[k].st = "done"
    /\ Cardinality({r \in 1..Len(note_rpcs) :
                       note_rpcs[r].method = "receive_transcription"}) = 1


\* ---- C17 ----
\* C17: when the LLM stream of update_notes ends with a response,
\* current_notes becomes the response without its surrounding blanks, and in
\* the same step the notes just stored and the whole transcriptions list go
\* out by one receive_notes RPC if a remote participant is present, and no
\* RPC is made otherwise; the end of the RPC, failure included, ends the task
\* normally and changes neither the notes nor the RPCs made.
C17_Stripped(x) == x # <<>> => (x[1] # " " /\ x[Len(x)] # " ")

C17_Step ==
    \A i \in 1..Len(note_updTasks) :
        /\ (note_updTasks[i].st = "llm" /\ note_updTasks'[i].st \in {"rpc", "done"}) =>
              /\ \E response \in NoteResponses :
                    IsStripOf(note_current_notes', response)
              /\ IF note_remote
                   THEN /\ note_updTasks'[i].st = "rpc"
                        /\ note_rpcs' = Append(note_rpcs,
                              [method |-> "receive_notes",
                               payload |-> <<note_current_notes', note_transcriptions>>])
                   ELSE /\ note_updTasks'[i].st = "done"
                        /\ note_rpcs' = note_rpcs
        /\ (note_updTasks[i].st = "rpc" /\ note_updTasks'[i].st # "rpc") =>
              /\ note_updTasks'[i].st \in {"done", "cancelled"}
              /\ note_current_notes' = note_current_notes
              /\ note_rpcs' = note_rpcs

C17_NotesSent ==
    \A r \in 1..Len(note_rpcs) :
        note_rpcs[r].method = "receive_notes" =>
            /\ C17_Stripped(note_rpcs[r].payload[1])
            /\ Len(note_rpcs[r].payload[2]) >= 1

C17_NotesUpdateAndSend == []C17_NotesSent /\ [][C17_Step]_vars

\* an update stored notes that came with blanks around them and sent them with
\* two batches; its RPC is over
C17_Witness ==
    /\ Len(note_updTasks) = 2
    /\ note_updTasks[2].st = "done"
    /\ note_current_notes = <<"a", ".">>
    /\ \E r \in 1..Len(note_rpcs) :
          note_rpcs[r] = [method |-> "receive_notes",
                          payload |-> <<note_current_notes, note_transcriptions>>]


\* ---- C18 ----
\* task k runs for a ParticipantData whose _stop_monitoring_participant is
\* over (the participant has left, the entry is gone from _participants and no
\* stop is still waiting), or on_exit is over
C18_Stopped(k) ==
    /\ k \in TaskIds
    /\ \/ det_exit.pc = "done"
       \/ /\ det_tasks[k].pd # 0
          /\ det_tasks[k].participant_id \notin det_room
          /\ det_participants[det_tasks[k].participant_id] = 0
          /\ \A h \in 1..Len(det_handlers) :
                ~(det_handlers[h].kind = "stop" /\ det_handlers[h].pd = det_tasks[k].pd)

C18_Finished(k) == k \in TaskIds /\ det_tasks[k].pc = "done"

\* C18: once the participant of a monitoring task has been stopped or the
\* agent has exited, the task eventually finishes.
C18_TaskTerminates ==
    \A k \in 1..MaxStreams : C18_Stopped(k) ~> C18_Finished(k)


\* ---- C19 ----
\* C19: after _create_video_stream has replaced a participant's stream, the
\* clean-up of a monitoring task closes no stream but the one the task was
\* iterating, so the new stream is not closed by the previous task.
C19_CleanupStep ==
    \A k \in TaskIds, s \in 1..Len(det_streams) :
        (/\ det_tasks[k].pc \in {"wait_frame", "llm", "notify"}
         /\ det_tasks'[k].pc \in {"closing", "done"}
         /\ det_streams[s] = "open"
         /\ det_streams'[s] = "closed") => s = det_tasks[k].stream

C19_NewStreamStaysOpen == [][C19_CleanupStep]_vars


\* ---- C20 ----
\* the participant_disconnected event of p has been handled and every handler
\* and monitoring task spawned for p has run to its end
C20_Handled(p) ==
    /\ det_entered
    /\ p \notin det_room
    /\ \A h \in 1..Len(det_handlers) : det_handlers[h].participant_id # p
    /\ \A k \in TaskIds : det_tasks[k].participant_id = p => det_tasks[k].pc = "done"

\* C20: once the disconnection of a participant has been handled, under every
\* interleaving of its handlers, the participant is not in _participants, its
\* video stream is closed and its is_monitoring is false.
C20_DisconnectedCleared ==
    \A p \in Ids :
        C20_Handled(p) =>
            /\ det_participants[p] = 0
            /\ \A i \in 1..Len(det_pd) :
                  det_pd[i].participant_id = p =>
                      /\ ~det_pd[i].is_monitoring
                      /\ \/ det_pd[i].video_stream = 0
                         \/ det_streams[det_pd[i].video_stream] = "closed"


\* ---- C21 ----
\* C21: in the step that completes on_exit, _participants becomes empty, every
\* participant tracked until then is left with is_monitoring false and its
\* video stream closed, and every task in _monitoring_tasks has its
\* cancellation requested.
C21_ExitStep ==
    (det_exit.pc # "done" /\ det_exit'.pc = "done") =>
        /\ \A p \in Ids : det_participants'[p] = 0
        /\ \A k \in det_monitoring_tasks' : det_tasks'[k].cancelReq
        /\ \A p \in Ids :
              det_participants[p] # 0 =>
                  LET pd == det_pd'[det_participants[p]] IN
                  /\ ~pd.is_monitoring
                  /\ pd.video_stream = 0 \/ det_streams'[pd.video_stream] = "closed"

C21_ExitCleansUp == [][C21_ExitStep]_vars


\* ---- C22 ----
\* the update_notes tasks that are neither finished nor asked to cancel
C22_Live == {i \in 1..Len(note_updTasks) :
                ~TaskDone(note_updTasks[i]) /\ ~note_updTasks[i].cancelReq}

\* C22: at most one update_notes task is unfinished and uncancelled at any
\* time, and it is the one note_update_task refers to.
C22_OnePendingUpdate ==
    /\ Cardinality(C22_Live) <= 1
    /\ \A i \in C22_Live : i = note_update_task

\* a second batch arrived while the first update was still running
C22_Witness ==
    /\ Len(note_updTasks) = 2
    /\ note_updTasks[1].st = "llm"
    /\ note_updTasks[1].cancelReq
    /\ note_updTasks[2].st = "llm"


\* ---- C23 ----
\* the number of receive_notes RPCs in a list of RPCs
C23_NotesRpcs(rpcs) ==
    Cardinality({r \in 1..Len(rpcs) : rpcs[r].method = "receive_notes"})

\* C23: current_notes changes, and a receive_notes RPC is made, only in a
\* step in which an uncancelled update_notes task gets the complete LLM
\* response; a step in which the LLM call of a task fails or a task is
\* cancelled leaves current_notes and the RPCs made as they were.
C23_Step ==
    /\ (\/ note_current_notes' # note_current_notes
        \/ C23_NotesRpcs(note_rpcs') # C23_NotesRpcs(note_rpcs)) =>
           \E i \in 1..Len(note_updTasks) :
               /\ note_updTasks[i].st = "llm"
               /\ ~note_updTasks[i].cancelReq
               /\ note_updTasks'[i].st \in {"rpc", "done"}
    /\ \A i \in 1..Len(note_updTasks) :
           (/\ note_updTasks[i].st \in {"created", "llm"}
            /\ note_updTasks'[i].st \in {"error", "cancelled"}) =>
               /\ note_current_notes' = note_current_notes
               /\ note_rpcs' = note_rpcs

C23_NotesOnlyOnResponse == [][C23_Step]_vars

\* the first update stored its notes, the LLM call of the second failed: the
\* notes of the first are still there and one receive_notes RPC was made
C23_Witness ==
    /\ Len(note_updTasks) = 2
    /\ note_updTasks[1].st = "done"
    /\ note_updTasks[2].st = "error"
    /\ note_current_notes = <<"a", ".">>
    /\ C23_NotesRpcs(note_rpcs) = 1


\* ---- C24 ----
\* C24: a step that delivers a non-final transcript leaves the buffer, the
\* transcriptions, current_notes and note_update_task as they were, creates
\* no task and makes no RPC.
C24_InterimStep ==
    (note_last_event # "interim" /\ note_last_event' = "interim") =>
        UNCHANGED <<note_buffer, note_transcriptions, note_current_notes,
                    note_update_task, note_updTasks, note_sendTasks, note_rpcs>>

C24_NonFinalChangesNothing == [][C24_InterimStep]_vars

\* a non-final transcript was delivered while the buffer held text and a
\* note update was running
C24_Witness ==
    /\ note_last_event = "interim"
    /\ note_buffer # <<>>
    /\ note_update_task # 0
    /\ note_updTasks[note_update_task].st = "llm"


\* ---- C25 ----
\* a monitoring task of p has been created and has not finished
C25_HasTask(p) ==
    \E k \in TaskIds : det_tasks[k].participant_id = p /\ det_tasks[k].pc # "done"

\* a handler of p is suspended: a _create_video_stream about to install a
\* stream and start a task, or a _stop_monitoring_participant about to clear
\* the flag
C25_InHandler(p) ==
    \E h \in 1..Len(det_handlers) : det_handlers[h].participant_id = p

\* C25: while on_exit has not been called, every participant counted as
\* active has a monitoring task that has not finished, unless one of its
\* handlers is still under way.
C25_ActiveHaveTask ==
    det_exit.pc = "idle" =>
        \A p \in ActiveParticipants : C25_HasTask(p) \/ C25_InHandler(p)

====
